---- MODULE Spec2Model ----
(***************************************************************************)
(* Incremental CSV ingestion of src/app/main.py: the processed-files       *)
(* ledger (processed_files.json), the scan of the data directory, the      *)
(* per-file parse, the per-day de-duplication and the pickled snapshot     *)
(* (cached_merged_df.pkl), followed by the caller's empty-data check.      *)
(*                                                                         *)
(* A timestamp is a pair (day, time); a row is a timestamp and one metric  *)
(* column whose cell may be missing (NaN).  Rows whose timestamp cell is   *)
(* empty and files with mixed timezones are not modelled.                  *)
(***************************************************************************)
EXTENDS Integers, Sequences, FiniteSets, TLC

VARIABLES
    dir,                \* os.listdir(DATA_DIR): file name -> [mtime, content]
    ledgerFile,         \* content of STATUS_FILE on disk
    snapshot,           \* CACHE_DATA_FILE on disk
    pc,                 \* position of the script
    processed,          \* load_and_merge_csv_files: processed
    updated_processed,  \* load_and_merge_csv_files: updated_processed
    merged_df,          \* load_and_merge_csv_files: merged_df
    new_data_loaded,    \* load_and_merge_csv_files: new_data_loaded
    idx,                \* position of the for loop in sorted(os.listdir)
    deduped_df,         \* load_and_merge_csv_files: deduped_df
    df,                 \* module level: df
    is_new_data,        \* module level: is_new_data
    message,            \* the st.error / st.success / st.info of lines 100-107
    errors,             \* files named by the st.error of line 80 in this run
    parsed,             \* files whose try block completed in this run
    writes,             \* files on disk this run has opened for writing
    lastRun,            \* result of the previous completed run, if the
                        \* directory has not been touched since
    edits               \* number of changes made to the data directory

vars == <<dir, ledgerFile, snapshot, pc, processed, updated_processed,
          merged_df, new_data_loaded, idx, deduped_df, df, is_new_data,
          message, errors, parsed, writes, lastRun, edits>>

-----------------------------------------------------------------------------
(* Bounds *)

MaxMtime == 2
MaxDay == 2
MaxTime == 2
MaxRows == 1
MaxEdits == 3

-----------------------------------------------------------------------------
(* Values *)

\* File names as character sequences, listed in lexicographic order.
Names == << <<"a", ".", "c", "s", "v">>,
            <<"b", ".", "c", "s", "v">>,
            <<"n", ".", "t", "x", "t">> >>

NameSet == {Names[i] : i \in 1..Len(Names)}

CsvSuffix == <<".", "c", "s", "v">>

NaN == "NaN"

Weights == {NaN, "60.0"}

Timestamps == [day : 1..MaxDay, time : 1..MaxTime]

Rows == [ts : Timestamps, weight : Weights]

RECURSIVE SeqsUpTo(_, _)
SeqsUpTo(S, n) ==
    IF n = 0 THEN {<<>>}
    ELSE LET shorter == SeqsUpTo(S, n - 1)
         IN  shorter \cup {Append(s, x) : s \in {t \in shorter : Len(t) = n - 1}, x \in S}

\* A file either has the timestamp column and some rows, or lacks the column.
Contents == {[ts_column |-> TRUE, rows |-> s] : s \in SeqsUpTo(Rows, MaxRows)}
            \cup {[ts_column |-> FALSE, rows |-> <<>>]}

\* What is written to a file that is not a .csv file: valid CSV text.
OtherContents == {[ts_column |-> TRUE,
                   rows |-> <<[ts |-> [day |-> MaxDay, time |-> 1], weight |-> NaN]>>]}

EmptyMap == [n \in {} |-> 0]

EmptyFrame == <<>>

\* Python values json.load can hand back.
Dict(m) == [kind |-> "dict", map |-> m]
Scalar(k) == [kind |-> k, map |-> EmptyMap]

\* Shapes of STATUS_FILE on disk.
FileOf(k, m) == [kind |-> k, map |-> m]
NonMappingKinds == {"absent", "empty", "corrupt", "list", "number", "string", "null"}
InitLedgerFiles == {FileOf(k, EmptyMap) : k \in NonMappingKinds \cup {"map"}}

NoSnapshot == [exists |-> FALSE, df |-> EmptyFrame]

NoRun == [ran |-> FALSE, df |-> EmptyFrame]

-----------------------------------------------------------------------------
(* Pure parts of the code *)

\* str.endswith
EndsWith(s, suffix) ==
    /\ Len(s) >= Len(suffix)
    /\ SubSeq(s, Len(s) - Len(suffix) + 1, Len(s)) = suffix

\* sorted(os.listdir(DATA_DIR))
SortedListdir(d) == SelectSeq(Names, LAMBDA n : n \in DOMAIN d)

\* load_processed_files
load_processed_files(file) ==
    IF file.kind = "absent" THEN Dict(EmptyMap)
    ELSE IF file.kind \in {"empty", "corrupt"} THEN Dict(EmptyMap)
    ELSE IF file.kind = "list" THEN Dict(EmptyMap)
    ELSE IF file.kind = "map" THEN Dict(file.map)
    ELSE IF file.kind = "number" THEN Scalar("int")
    ELSE IF file.kind = "string" THEN Scalar("str")
    ELSE Scalar("NoneType")

\* processed.copy(): only a dict has the method
HasCopy(value) == value.kind = "dict"

\* the test of line 70 that skips a file
IsUnchanged_Greater(proc, fname, mtime) ==
    fname \in DOMAIN proc /\ proc[fname] >= mtime
IsUnchanged_Never(proc, fname, mtime) == FALSE
IsUnchanged(proc, fname, mtime) ==
    fname \in DOMAIN proc /\ proc[fname] = mtime

\* pd.read_csv and the conversion of the timestamp column
ParseRaises(content) == ~content.ts_column
ParseFrame(content) == content.rows

\* pd.concat([merged_df, df], ignore_index=True)
Concat(a, b) == a \o b

\* d[fname] = mtime
SetItem(m, k, v) == [x \in DOMAIN m \cup {k} |-> IF x = k THEN v ELSE m[x]]

\* the try body's ledger update (line 77) and the except branch (lines 79-80)
OnSuccess_Forget(up, fname, mtime) == up
OnSuccess(up, fname, mtime) == SetItem(up, fname, mtime)
OnFailure_Record(up, fname, mtime) == SetItem(up, fname, mtime)
OnFailure(up, fname, mtime) == up

TsLeq(a, b) == a.day < b.day \/ (a.day = b.day /\ a.time <= b.time)

\* sort_values("測定日"): quicksort, so rows with equal timestamps may come
\* out in any order
SortValues(frame) ==
    LET n == Len(frame)
        perms == {p \in [1..n -> 1..n] : \A i, j \in 1..n : i # j => p[i] # p[j]}
        sorted(p) == \A i \in 1..n : \A j \in 1..n :
                        i < j => TsLeq(frame[p[i]].ts, frame[p[j]].ts)
    IN  {[i \in 1..n |-> frame[p[i]]] : p \in {q \in perms : sorted(q)}}

\* .dt.date
DateOf(ts) == ts.day

\* GroupBy.last() of one column: the last cell of the group that is not missing
RECURSIVE LastNonNull(_)
LastNonNull(cells) ==
    IF Len(cells) = 0 THEN NaN
    ELSE IF cells[Len(cells)] # NaN THEN cells[Len(cells)]
    ELSE LastNonNull(SubSeq(cells, 1, Len(cells) - 1))

RECURSIVE ColumnOf(_)
ColumnOf(group) ==
    IF Len(group) = 0 THEN <<>>
    ELSE <<group[1].weight>> \o ColumnOf(Tail(group))

\* groupby("日付のみ", as_index=False).last(): one row per date, dates ascending
GroupByLast_NoDedup(frame) ==
    [i \in 1..Len(frame) |->
        [date_only |-> DateOf(frame[i].ts), ts |-> frame[i].ts,
         weight |-> frame[i].weight]]
GroupByLast(frame) ==
    LET dates == {DateOf(frame[i].ts) : i \in 1..Len(frame)}
        group(d) == SelectSeq(frame, LAMBDA r : DateOf(r.ts) = d)
        row(d) == [date_only |-> d,
                   ts |-> group(d)[Len(group(d))].ts,
                   weight |-> LastNonNull(ColumnOf(group(d)))]
        RECURSIVE build(_)
        build(d) == IF d > MaxDay THEN <<>>
                    ELSE (IF d \in dates THEN <<row(d)>> ELSE <<>>) \o build(d + 1)
    IN  build(1)

-----------------------------------------------------------------------------
(* State machine *)


Init ==
    /\ dir = EmptyMap
    /\ ledgerFile \in InitLedgerFiles
    /\ snapshot = NoSnapshot
    /\ pc = "idle"
    /\ processed = Dict(EmptyMap)
    /\ updated_processed = EmptyMap
    /\ merged_df = EmptyFrame
    /\ new_data_loaded = FALSE
    /\ idx = 1
    /\ deduped_df = EmptyFrame
    /\ df = EmptyFrame
    /\ is_new_data = FALSE
    /\ message = "none"
    /\ errors = {}
    /\ parsed = {}
    /\ writes = {}
    /\ lastRun = NoRun
    /\ edits = 0

locals == <<processed, updated_processed, merged_df, new_data_loaded, idx,
            deduped_df>>
results == <<df, is_new_data, message>>
disk == <<ledgerFile, snapshot>>
run == <<errors, parsed, writes>>

\* The user saves or exports a file into the data directory.
WriteFile(fname, mtime, content) ==
    /\ pc = "idle"
    /\ edits < MaxEdits
    /\ dir' = SetItem(dir, fname, [mtime |-> mtime, content |-> content])
    /\ lastRun' = NoRun
    /\ edits' = edits + 1
    /\ UNCHANGED <<disk, pc, locals, results, run>>

\* The user deletes a file from the data directory.
RemoveFile(fname) ==
    /\ pc = "idle"
    /\ edits < MaxEdits
    /\ fname \in DOMAIN dir
    /\ dir' = [n \in DOMAIN dir \ {fname} |-> dir[n]]
    /\ lastRun' = NoRun
    /\ edits' = edits + 1
    /\ UNCHANGED <<disk, pc, locals, results, run>>

\* The script is (re)run: line 59.
StartRun ==
    /\ pc = "idle"
    /\ processed' = load_processed_files(ledgerFile)
    /\ pc' = "loaded"
    /\ UNCHANGED <<dir, disk, updated_processed, merged_df, new_data_loaded,
                   idx, deduped_df, results, run, lastRun, edits>>

\* Lines 60-62; processed.copy() raises AttributeError on a value that is
\* not a dict, and nothing catches it.
Begin ==
    /\ pc = "loaded"
    /\ IF HasCopy(processed)
       THEN /\ updated_processed' = processed.map
            /\ pc' = "scan"
            /\ UNCHANGED lastRun
       ELSE /\ pc' = "raised"
            /\ lastRun' = NoRun
            /\ UNCHANGED updated_processed
    /\ UNCHANGED <<dir, disk, processed, merged_df, new_data_loaded, idx,
                   deduped_df, results, run, edits>>

\* One iteration of the for loop, lines 64-80.
ScanStep ==
    /\ pc = "scan"
    /\ idx <= Len(SortedListdir(dir))
    /\ LET fname == SortedListdir(dir)[idx]
           mtime == dir[fname].mtime
           content == dir[fname].content
       IN  IF ~EndsWith(fname, CsvSuffix)
           THEN UNCHANGED <<merged_df, updated_processed, new_data_loaded,
                            errors, parsed>>
           ELSE IF IsUnchanged(processed.map, fname, mtime)
           THEN UNCHANGED <<merged_df, updated_processed, new_data_loaded,
                            errors, parsed>>
           ELSE IF ParseRaises(content)
           THEN /\ errors' = errors \cup {fname}
                /\ updated_processed' = OnFailure(updated_processed, fname, mtime)
                /\ UNCHANGED <<merged_df, new_data_loaded, parsed>>
           ELSE /\ merged_df' = Concat(merged_df, ParseFrame(content))
                /\ updated_processed' = OnSuccess(updated_processed, fname, mtime)
                /\ new_data_loaded' = TRUE
                /\ parsed' = parsed \cup {fname}
                /\ UNCHANGED errors
    /\ idx' = idx + 1
    /\ UNCHANGED <<dir, disk, pc, processed, deduped_df, results, writes,
                   lastRun, edits>>

LoopDone == pc = "scan" /\ idx > Len(SortedListdir(dir))

\* Lines 82-87: sort, group by date, sort again, pickle.
MergeAndCache ==
    /\ LoopDone
    /\ new_data_loaded
    /\ \E s \in SortValues(merged_df) :
         \E d \in SortValues(GroupByLast(s)) :
            /\ deduped_df' = d
            /\ snapshot' = [exists |-> TRUE, df |-> d]
    /\ writes' = writes \cup {"CACHE_DATA_FILE"}
    /\ pc' = "save"
    /\ UNCHANGED <<dir, ledgerFile, processed, updated_processed, merged_df,
                   new_data_loaded, idx, results, errors, parsed, lastRun, edits>>

\* save_processed_files, line 52: open(STATUS_FILE, "w") truncates the file.
SaveOpen ==
    /\ pc = "save"
    /\ ledgerFile' = FileOf("empty", EmptyMap)
    /\ writes' = writes \cup {"STATUS_FILE"}
    /\ pc' = "dump"
    /\ UNCHANGED <<dir, snapshot, locals, results, errors, parsed, lastRun, edits>>

\* save_processed_files, line 53: json.dump writes the text piece by piece.
SaveDump ==
    /\ pc = "dump"
    /\ ledgerFile' = FileOf("corrupt", EmptyMap)
    /\ pc' = "close"
    /\ UNCHANGED <<dir, snapshot, locals, results, run, lastRun, edits>>

\* End of the with block of save_processed_files, then the return of line 89.
SaveClose ==
    /\ pc = "close"
    /\ ledgerFile' = FileOf("map", updated_processed)
    /\ df' = deduped_df
    /\ is_new_data' = TRUE
    /\ pc' = "returned"
    /\ UNCHANGED <<dir, snapshot, locals, message, run, lastRun, edits>>

\* The process stops while save_processed_files is writing.
Crash ==
    /\ pc \in {"dump", "close"}
    /\ pc' = "killed"
    /\ lastRun' = NoRun
    /\ UNCHANGED <<dir, disk, locals, results, run, edits>>

\* Lines 90-92.
ReturnCached ==
    /\ LoopDone
    /\ ~new_data_loaded
    /\ snapshot.exists
    /\ df' = snapshot.df
    /\ is_new_data' = FALSE
    /\ pc' = "returned"
    /\ UNCHANGED <<dir, disk, locals, message, run, lastRun, edits>>

\* Lines 93-94.
ReturnEmpty ==
    /\ LoopDone
    /\ ~new_data_loaded
    /\ ~snapshot.exists
    /\ df' = EmptyFrame
    /\ is_new_data' = FALSE
    /\ pc' = "returned"
    /\ UNCHANGED <<dir, disk, locals, message, run, lastRun, edits>>

\* Lines 98-107: the caller stops on an empty frame, else goes on to the analysis.
Main ==
    /\ pc = "returned"
    /\ IF Len(df) = 0
       THEN /\ message' = "no_valid_data"
            /\ pc' = "stopped"
       ELSE /\ message' = (IF is_new_data THEN "new_csv_loaded" ELSE "using_previous_data")
            /\ pc' = "analysis"
    /\ lastRun' = [ran |-> TRUE, df |-> df]
    /\ processed' = Dict(EmptyMap)
    /\ updated_processed' = EmptyMap
    /\ merged_df' = EmptyFrame
    /\ new_data_loaded' = FALSE
    /\ idx' = 1
    /\ deduped_df' = EmptyFrame
    /\ errors' = {}
    /\ parsed' = {}
    /\ writes' = {}
    /\ UNCHANGED <<dir, disk, df, is_new_data, edits>>

\* The script ends: after the analysis, at st.stop(), on the uncaught
\* exception, or with the stopped process.  Nothing of it is left in memory.
Exit ==
    /\ pc \in {"stopped", "analysis", "raised", "killed"}
    /\ pc' = "idle"
    /\ processed' = Dict(EmptyMap)
    /\ updated_processed' = EmptyMap
    /\ merged_df' = EmptyFrame
    /\ new_data_loaded' = FALSE
    /\ idx' = 1
    /\ deduped_df' = EmptyFrame
    /\ df' = EmptyFrame
    /\ is_new_data' = FALSE
    /\ message' = "none"
    /\ errors' = {}
    /\ parsed' = {}
    /\ writes' = {}
    /\ UNCHANGED <<dir, disk, lastRun, edits>>

Next ==
    \/ \E i \in 1..Len(Names), m \in 1..MaxMtime :
          \E c \in (IF EndsWith(Names[i], CsvSuffix) THEN Contents ELSE OtherContents) :
             WriteFile(Names[i], m, c)
    \/ \E n \in NameSet : RemoveFile(n)
    \/ StartRun
    \/ Begin
    \/ ScanStep
    \/ MergeAndCache
    \/ SaveOpen
    \/ SaveDump
    \/ SaveClose
    \/ Crash
    \/ ReturnCached
    \/ ReturnEmpty
    \/ Main
    \/ Exit

Spec == Init /\ [][Next]_vars

-----------------------------------------------------------------------------
(* Vocabulary of the properties *)

\* calendar days of the rows of a frame
DaysIn(frame) == {frame[i].ts.day : i \in 1..Len(frame)}

\* pcs at which the locals of load_and_merge_csv_files describe the whole scan
AfterScan == {"save", "dump", "close", "returned"}

\* the .csv files whose modification time the loaded ledger does not hold
Pending ==
    {f \in DOMAIN dir :
        /\ SubSeq(f, Len(f) - 3, Len(f)) = CsvSuffix
        /\ (f \notin DOMAIN processed.map \/ processed.map[f] # dir[f].mtime)}

PendingGood == {f \in Pending : dir[f].content.ts_column}
PendingBad == {f \in Pending : ~dir[f].content.ts_column}

\* the loaded ledger with the current modification time of the files that parsed
ExpectedLedger ==
    [f \in DOMAIN processed.map \cup PendingGood |->
        IF f \in PendingGood THEN dir[f].mtime ELSE processed.map[f]]

NoTwoOnOneDay(frame) ==
    \A i, j \in 1..Len(frame) : i # j => frame[i].ts.day # frame[j].ts.day

-----------------------------------------------------------------------------
(* Properties *)

\* C1: a run that persists a snapshot keeps a record for every calendar day
\* of the snapshot that existed before the run.
C1_PriorDaysKept ==
    [][(pc = "scan" /\ pc' = "save")
          => DaysIn(snapshot.df) \subseteq DaysIn(snapshot'.df)]_vars

\* C2: when a run has a file that fails to parse and files that parse, the
\* returned frame has the days of the files that parsed, a diagnostic names
\* exactly the failed files, the ledger on disk holds the current
\* modification time of each file that parsed, and it does not hold the
\* current modification time of a failed file.
C2_FailureIsolated ==
    (pc = "returned" /\ PendingGood # {} /\ PendingBad # {}) =>
        /\ \A f \in PendingGood : DaysIn(dir[f].content.rows) \subseteq DaysIn(df)
        /\ errors = PendingBad
        /\ ledgerFile.kind = "map"
        /\ \A f \in PendingGood :
              f \in DOMAIN ledgerFile.map /\ ledgerFile.map[f] = dir[f].mtime
        /\ \A f \in PendingBad :
              f \notin DOMAIN ledgerFile.map \/ ledgerFile.map[f] # dir[f].mtime

\* a file parsed, and a file that had parsed before failed this time
C2_Witness ==
    /\ pc = "returned"
    /\ parsed # {}
    /\ Len(df) > 0
    /\ \E f \in errors : f \in DOMAIN ledgerFile.map

\* C3: the scan has attempted to parse a .csv file it has passed if and only
\* if the file's modification time is absent from the loaded ledger or
\* differs from the stored value; it never attempts another file.
C3_ScanDecision ==
    (pc = "scan" \/ pc \in AfterScan) =>
        \A j \in 1..Len(SortedListdir(dir)) :
            j < idx =>
                ((SortedListdir(dir)[j] \in parsed \cup errors)
                    <=> (SortedListdir(dir)[j] \in Pending))

\* one file with an older modification time than the ledger's was parsed,
\* another whose modification time equals the ledger's was passed over
C3_Witness ==
    /\ pc = "scan"
    /\ idx > Len(SortedListdir(dir))
    /\ \E f \in parsed :
          f \in DOMAIN processed.map /\ dir[f].mtime < processed.map[f]
    /\ \E g \in DOMAIN dir \ (parsed \cup errors) :
          g \in DOMAIN processed.map /\ dir[g].mtime = processed.map[g]

\* C4: every frame the function returns or pickles has at most one row per
\* calendar day.
C4_OnePerDay ==
    /\ NoTwoOnOneDay(df)
    /\ NoTwoOnOneDay(deduped_df)
    /\ NoTwoOnOneDay(snapshot.df)

C4_Witness ==
    /\ pc = "returned"
    /\ is_new_data
    /\ Len(df) > 0
    /\ Len(merged_df) > Len(df)
    /\ snapshot.df = df

\* C5: each row of the de-duplicated frame is, in timestamp and in the metric
\* column, one of the input rows with the latest timestamp of its day, and
\* every day of the input has a row.
C5_LatestRecordWins ==
    pc = "save" =>
        /\ DaysIn(deduped_df) = DaysIn(merged_df)
        /\ \A i \in 1..Len(deduped_df) :
              \E k \in 1..Len(merged_df) :
                 /\ merged_df[k].ts = deduped_df[i].ts
                 /\ merged_df[k].weight = deduped_df[i].weight
                 /\ \A m \in 1..Len(merged_df) :
                       merged_df[m].ts.day = merged_df[k].ts.day
                          => merged_df[m].ts.time <= merged_df[k].ts.time

\* C6: a run that follows a completed run with no change to the data
\* directory in between returns the same frame, reports no new data and
\* writes neither file.
C6_Idempotent ==
    (pc = "returned" /\ lastRun.ran) =>
        /\ df = lastRun.df
        /\ ~is_new_data
        /\ writes = {}

C6_Witness ==
    /\ pc = "returned"
    /\ lastRun.ran
    /\ Len(df) > 0
    /\ Pending = {}

\* C7: no run raises, and a ledger file that is absent, empty, corrupt or
\* not a mapping loads as the empty ledger.
C7_LedgerLoadNeverFails ==
    /\ pc # "raised"
    /\ (pc = "loaded" /\ ledgerFile.kind # "map") => processed = Dict(EmptyMap)

\* C8: after a stop during save_processed_files the next load yields the
\* complete previous ledger or the complete new ledger.
C8_SaveAtomic ==
    pc = "killed" =>
        load_processed_files(ledgerFile) \in {processed, Dict(updated_processed)}

\* C9 as stated: a completed run whose scan found a file needing processing
\* has persisted the returned frame and the ledger and reports new data.
C9_AnyPendingPersists ==
    (pc = "returned" /\ Pending # {}) =>
        /\ is_new_data
        /\ writes = {"CACHE_DATA_FILE", "STATUS_FILE"}
        /\ snapshot = [exists |-> TRUE, df |-> df]
        /\ ledgerFile = FileOf("map", ExpectedLedger)

\* C9 amended: a completed run in which a file needing processing parsed has
\* persisted the returned frame as the snapshot and the ledger updated with
\* the modification times of exactly the files that parsed, and reports new
\* data; a completed run in which no such file parsed has written nothing
\* and reports no new data.
C9_ParsedPersists ==
    /\ (pc = "returned" /\ PendingGood # {}) =>
          /\ is_new_data
          /\ writes = {"CACHE_DATA_FILE", "STATUS_FILE"}
          /\ snapshot = [exists |-> TRUE, df |-> df]
          /\ ledgerFile = FileOf("map", ExpectedLedger)
    /\ (pc = "returned" /\ PendingGood = {}) =>
          /\ ~is_new_data
          /\ writes = {}

C9_Witness ==
    /\ pc = "returned"
    /\ parsed # {}
    /\ is_new_data
    /\ \E f \in DOMAIN ledgerFile.map : f \notin parsed

\* C10: a run with no snapshot and no parsed file does not raise; it returns
\* the empty frame with no new data, writes nothing, and the caller stops
\* with the no-valid-data message instead of going on to the analysis.
C10_NoDataIsTerminal ==
    /\ (pc \in {"returned", "raised"} /\ ~snapshot.exists /\ parsed = {}) =>
          /\ pc # "raised"
          /\ Len(df) = 0
          /\ ~is_new_data
          /\ writes = {}
    /\ pc = "analysis" => Len(df) > 0
    /\ (pc = "stopped" \/ message = "no_valid_data") =>
          (pc = "stopped" /\ message = "no_valid_data" /\ Len(df) = 0)

====
